---- MODULE Spec2Model ----
(***************************************************************************)
(* A model of pylsh (src/lsh.py): the Lsh index, LshObject identities, the *)
(* MinHasher and RandomProjectionHasher, the BandingHashTable and          *)
(* JaccardSimilarity.compute_similarity.                                   *)
(*                                                                         *)
(* Representation.  A feature vector is the record [len, nz]: its length   *)
(* and the function from the 0-based positions that hold a nonzero value   *)
(* to that value.  A MinHash signature element is an integer (a signed     *)
(* 32-bit murmur3 value) or the string "inf" (float("inf")); a random      *)
(* projection signature element is a BOOLEAN.  A band key, the value of    *)
(* hash(tuple(band)), is a C long in two's complement, kept as its bytes,  *)
(* least significant first.                                                *)
(***************************************************************************)
EXTENDS Integers, Sequences, FiniteSets, TLC

(***************************************************************************)
(* Bounds of the model.                                                    *)
(***************************************************************************)
MaxObjects == 2
MaxPuts == 2
MaxLen == 3

(***************************************************************************)
(* 32-bit unsigned arithmetic, a word being <<hi, lo>> with 16-bit halves. *)
(***************************************************************************)
RECURSIVE Xor(_, _)
Xor(a, b) ==
    IF a = 0 THEN b
    ELSE IF b = 0 THEN a
    ELSE ((a + b) % 2) + 2 * Xor(a \div 2, b \div 2)

Xor32(x, y) == <<Xor(x[1], y[1]), Xor(x[2], y[2])>>

Mul32(x, y) ==
    LET a0 == x[2] % 256  a1 == x[2] \div 256
        a2 == x[1] % 256  a3 == x[1] \div 256
        b0 == y[2] % 256  b1 == y[2] \div 256
        b2 == y[1] % 256  b3 == y[1] \div 256
        c0 == a0 * b0
        c1 == a0 * b1 + a1 * b0 + (c0 \div 256)
        c2 == a0 * b2 + a1 * b1 + a2 * b0 + (c1 \div 256)
        c3 == a0 * b3 + a1 * b2 + a2 * b1 + a3 * b0 + (c2 \div 256)
    IN  <<(c2 % 256) + 256 * (c3 % 256), (c0 % 256) + 256 * (c1 % 256)>>

Add32(x, y) ==
    LET lo == x[2] + y[2]
    IN  <<(x[1] + y[1] + (lo \div 65536)) % 65536, lo % 65536>>

Pow2(n) == 2 ^ n

\* rotate left by r bits, 0 < r < 16
Rotl32(x, r) ==
    <<((x[1] * Pow2(r)) % 65536) + (x[2] \div Pow2(16 - r)),
      ((x[2] * Pow2(r)) % 65536) + (x[1] \div Pow2(16 - r))>>

\* shift right by r bits, 0 < r <= 16
Shr32(x, r) ==
    <<x[1] \div Pow2(r), (x[2] \div Pow2(r)) + (x[1] % Pow2(r)) * Pow2(16 - r)>>

\* a 32-bit word read as a signed integer
Signed32(x) ==
    IF x[1] >= 32768 THEN (x[1] - 65536) * 65536 + x[2] ELSE x[1] * 65536 + x[2]

(***************************************************************************)
(* str(pos): the ASCII codes of the decimal digits of a natural number.    *)
(***************************************************************************)
RECURSIVE Str(_)
Str(n) == IF n < 10 THEN <<48 + n>> ELSE Append(Str(n \div 10), 48 + (n % 10))

\* byte i (1-based) of s, 0 past its end
ByteAt(s, i) == IF i <= Len(s) THEN s[i] ELSE 0

(***************************************************************************)
(* mmh3.hash(key, seed): MurmurHash3_x86_32, signed.                       *)
(***************************************************************************)
MixK(k) == Mul32(Rotl32(Mul32(k, <<52382, 11601>>), 15), <<7047, 13715>>)

RECURSIVE MurmurBody(_, _, _)
MurmurBody(s, i, h) ==
    IF i + 3 > Len(s) THEN h
    ELSE LET k == <<s[i + 2] + 256 * s[i + 3], s[i] + 256 * s[i + 1]>>
             h1 == Rotl32(Xor32(h, MixK(k)), 13)
         IN  MurmurBody(s, i + 4, Add32(Mul32(h1, <<0, 5>>), <<58964, 27492>>))

MurmurTail(s, h) ==
    LET t == 4 * (Len(s) \div 4)
    IN  IF Len(s) % 4 = 0 THEN h
        ELSE Xor32(h, MixK(<<ByteAt(s, t + 3), ByteAt(s, t + 1) + 256 * ByteAt(s, t + 2)>>))

Fmix(h) ==
    LET h1 == Xor32(h, Shr32(h, 16))
        h2 == Mul32(h1, <<34283, 51819>>)
        h3 == Xor32(h2, Shr32(h2, 13))
        h4 == Mul32(h3, <<49842, 44597>>)
    IN  Xor32(h4, Shr32(h4, 16))

mmh3_hash(s, seed) ==
    Signed32(Fmix(Xor32(MurmurTail(s, MurmurBody(s, 1, <<0, seed>>)), <<0, Len(s)>>)))

(***************************************************************************)
(* C long arithmetic of the build (LongBytes bytes, two's complement), a   *)
(* long being the sequence of its bytes, least significant first.          *)
(***************************************************************************)
LongBytes == 8

\* the bytes of the natural number n
NatBytes(n) == [i \in 1..LongBytes |-> IF i <= 4 THEN (n \div (256 ^ (i - 1))) % 256 ELSE 0]

\* the long holding the integer n
ToLong(n) ==
    IF n >= 0 THEN NatBytes(n)
    ELSE [i \in 1..LongBytes |-> 255 - NatBytes(-(n + 1))[i]]

XorLong(x, y) == [i \in 1..LongBytes |-> Xor(x[i], y[i])]

RECURSIVE MulCarry(_, _, _, _)
MulCarry(x, m, i, carry) ==
    IF i > LongBytes THEN <<>>
    ELSE LET t == x[i] * m + carry
         IN  <<t % 256>> \o MulCarry(x, m, i + 1, t \div 256)

\* x * m and x + m, truncated to the width of a long, for 0 <= m < 2^22
MulLong(x, m) == MulCarry(x, m, 1, 0)

RECURSIVE AddCarry(_, _, _)
AddCarry(x, i, carry) ==
    IF i > LongBytes THEN <<>>
    ELSE LET t == x[i] + carry
         IN  <<t % 256>> \o AddCarry(x, i + 1, t \div 256)

AddLong(x, m) == AddCarry(x, 1, m)

(***************************************************************************)
(* Signature elements, and CPython 2's hash() of them and of a tuple.      *)
(***************************************************************************)
IntElem(n) == [t |-> "int", v |-> n]
InfElem == [t |-> "inf", v |-> 0]
BoolElem(bit) == [t |-> "bool", v |-> IF bit THEN 1 ELSE 0]

\* hash(e) of one element: an int is its own hash except -1, float("inf")
\* hashes to 314159, True and False to 1 and 0
PyHashItem(e) ==
    IF e.t = "inf" THEN 314159
    ELSE IF e.v = -1 THEN -2
    ELSE e.v

\* tuplehash's loop over items i..Len(band): x = (x ^ y) * mult;
\* mult += 82520 + len + len, len being the number of items left
RECURSIVE TupleLoop(_, _, _, _)
TupleLoop(band, i, x, mult) ==
    IF i > Len(band) THEN x
    ELSE TupleLoop(band, i + 1,
                   MulLong(XorLong(x, ToLong(PyHashItem(band[i]))), mult),
                   mult + 82520 + 2 * (Len(band) - i))

\* hash(tuple(band))
PyHashTuple(band) ==
    LET x == AddLong(TupleLoop(band, 1, ToLong(3430008), 1000003), 97531)
    IN  IF x = ToLong(-1) THEN ToLong(-2) ELSE x

(***************************************************************************)
(* The state: the class counter LshObject.identifier, the objects created  *)
(* (in creation order; an object is referred to by its position), the one  *)
(* Lsh index, the last call made and what it returned or raised, and, as   *)
(* history, the signatures each object was put with.  vec1, vec2 and sim   *)
(* are the arguments and the result of compute_similarity.                 *)
(***************************************************************************)
VARIABLES identifier, objects, lsh, last, putLog, vec1, vec2, sim

vars == <<identifier, objects, lsh, last, putLog, vec1, vec2, sim>>

None == [cls |-> "None"]

Range(s) == {s[i] : i \in DOMAIN s}

Min(a, b) == IF a <= b THEN a ELSE b

MinOf(S) == CHOOSE m \in S : \A n \in S : m <= n

(***************************************************************************)
(* The inputs: feature vectors, constructor arguments, random draws.       *)
(***************************************************************************)
Feature(len, nz) == [len |-> len, nz |-> nz]

NoBits == [pos \in {} |-> 0]

\* what the caller of a Jaccard index hands it: the zero vector, two
\* vectors sharing one set position, and a vector of another length
JaccardFeatures ==
    { Feature(1911089180, NoBits),
      Feature(1911089180, (1911089179 :> 1)),
      Feature(1911089180, (3 :> 1) @@ (1911089179 :> 1)),
      Feature(2, (0 :> 1)) }

\* what the caller of a cosine index hands it
CosineFeatures ==
    { Feature(2, (0 :> 1)),
      Feature(2, (0 :> 1) @@ (1 :> -1)),
      Feature(1911089180, NoBits) }

Features == JaccardFeatures \cup CosineFeatures

\* the features of the objects created for an index; none are created
\* when the constructor raised
FeaturesFor(index) ==
    IF index = [cls |-> "None"] THEN {}
    ELSE IF index.similarity_measure = "JaccardSimilarity" THEN JaccardFeatures
    ELSE CosineFeatures

Config(feat_dim, sig_dim, similarity_measure, b) ==
    [feat_dim |-> feat_dim, sig_dim |-> sig_dim,
     similarity_measure |-> similarity_measure, b |-> b]

Configs ==
    { Config(1911089180, 2, "JaccardSimilarity", 2),
      Config(1911089180, 2, "JaccardSimilarity", 1),
      Config(1911089180, 3, "JaccardSimilarity", 2),
      Config(1911089180, 2, "JaccardSimilarity", 0),
      Config(2, 2, "CosineSimilarity", 2) }

\* the hyperplanes randn may draw, as rows of feat_dim coordinates
PlaneRows(feat_dim) ==
    { [j \in 1..feat_dim |-> 1],
      [j \in 1..feat_dim |-> IF j = 1 THEN 1 ELSE -1] }

(***************************************************************************)
(* LshObject                                                               *)
(***************************************************************************)
\* a counter that is read but never advanced
NextIdentifier_Stuck(n) == n

\* LshObject.identifier += 1; self.id = LshObject.identifier
NextIdentifier(n) == n + 1

LshObject(id, feature) == [id |-> id, feature |-> feature, signature |-> None]

\* LshObject.__eq__
LshObjectEq(a, b) == a.id = b.id

(***************************************************************************)
(* Hashers.  hash returns [exc, sig]: the exception raised, or "none" and  *)
(* the signature.                                                          *)
(***************************************************************************)
Returned(sig) == [exc |-> "none", sig |-> sig]

Raised(exc) == [exc |-> exc, sig |-> <<>>]

\* the positions set in some feature of Features, and the seeds in use
SetPositions == UNION {{q \in DOMAIN f.nz : f.nz[q] = 1} : f \in Features}

Seeds == UNION {0..(cfg.sig_dim - 1) : cfg \in Configs}

\* mmh3.hash(str(pos), k), tabulated once for every position and seed
Mmh3Table ==
    [pk \in {} |-> 0] @@ [pk \in SetPositions \X Seeds |-> mmh3_hash(Str(pk[1]), pk[2])]

\* MinHasher._hash(feature, k)
MinHasher_hash_k(feature, k) ==
    LET hash_values == {Mmh3Table[<<pos, k>>] :
                           pos \in {q \in DOMAIN feature.nz : feature.nz[q] = 1}}
    IN  IF hash_values = {} THEN InfElem ELSE IntElem(MinOf(hash_values))

\* MinHasher.hash(feature)
MinHasher_hash(hasher, feature) ==
    Returned([k \in 1..hasher.sig_dim |-> MinHasher_hash_k(feature, k - 1)])

RECURSIVE SumOver(_, _, _)
SumOver(S, plane, nz) ==
    IF S = {} THEN 0
    ELSE LET pos == CHOOSE q \in S : TRUE
         IN  plane[pos + 1] * nz[pos] + SumOver(S \ {pos}, plane, nz)

\* numpy.dot of one hyperplane and the feature
Dot(plane, feature) == SumOver(DOMAIN feature.nz, plane, feature.nz)

\* RandomProjectionHasher.hash(feature); numpy.dot raises ValueError when
\* the shapes (sig_dim, feat_dim) and (len,) are not aligned
RandomProjectionHasher_hash(hasher, feature) ==
    IF feature.len # hasher.feat_dim THEN Raised("ValueError")
    ELSE Returned([k \in 1..hasher.sig_dim |->
                      BoolElem(Dot(hasher.planes[k], feature) > 0)])

Hasher_hash(hasher, feature) ==
    IF hasher.cls = "MinHasher" THEN MinHasher_hash(hasher, feature)
    ELSE RandomProjectionHasher_hash(hasher, feature)

\* Lsh._init_hasher, planes being what randn drew
InitHasher(cfg, planes) ==
    IF cfg.similarity_measure = "JaccardSimilarity"
    THEN [cls |-> "MinHasher", feat_dim |-> cfg.feat_dim,
          sig_dim |-> cfg.sig_dim, planes |-> <<>>]
    ELSE [cls |-> "RandomProjectionHasher", feat_dim |-> cfg.feat_dim,
          sig_dim |-> cfg.sig_dim, planes |-> planes]

\* what randn(sig_dim, feat_dim) may return, and what is drawn for a config
PlaneChoices(cfg) ==
    IF cfg.similarity_measure = "JaccardSimilarity" THEN {<<>>}
    ELSE [1..cfg.sig_dim -> PlaneRows(cfg.feat_dim)]

(***************************************************************************)
(* BandingHashTable                                                        *)
(***************************************************************************)
EmptyDict == [key \in {} |-> <<>>]

\* BandingHashTable.__init__ (b # 0): r = sig_dim / b is Python 2's floor
\* division
BandingHashTable(sig_dim, b) ==
    [sig_dim |-> sig_dim, b |-> b, r |-> sig_dim \div b,
     hash_tables |-> [i \in 1..b |-> EmptyDict]]

\* the Python slice s[lo:hi] of a sequence, 0 <= lo
Slice(s, lo, hi) == SubSeq(s, lo + 1, Min(hi, Len(s)))

\* BandingHashTable._get_signature_segments
SignatureSegments(table, signature) ==
    [i \in 1..table.b |-> Slice(signature, table.r * (i - 1), table.r * i)]

\* the elements a signature may hold and the segments a band may be
Elements ==
    {InfElem, BoolElem(TRUE), BoolElem(FALSE)}
        \cup {IntElem(Mmh3Table[pk]) : pk \in DOMAIN Mmh3Table}

Segments == UNION {[1..(cfg.sig_dim \div cfg.b) -> Elements] : cfg \in {c \in Configs : c.b # 0}}

\* hash(tuple(band)), tabulated once for every segment
KeyTable == [band \in {} |-> 0] @@ [band \in Segments |-> PyHashTuple(band)]

BandKey(band) == KeyTable[band]

\* put overwriting the bucket of a key already present
PutBand_Overwrite(dict, key, ref) ==
    IF key \in DOMAIN dict THEN [dict EXCEPT ![key] = <<ref>>]
    ELSE dict @@ (key :> <<ref>>)

\* put skipping an object its bucket already holds
PutBand_Dedup(dict, key, ref) ==
    IF key \in DOMAIN dict
    THEN IF ref \in Range(dict[key]) THEN dict ELSE [dict EXCEPT ![key] = Append(@, ref)]
    ELSE dict @@ (key :> <<ref>>)

\* one iteration of put's loop: append the object to band index's bucket
PutBand(dict, key, ref) ==
    IF key \in DOMAIN dict THEN [dict EXCEPT ![key] = Append(@, ref)]
    ELSE dict @@ (key :> <<ref>>)

\* BandingHashTable.put
BandingPut(table, ref, signature) ==
    LET bands == SignatureSegments(table, signature)
    IN  [table EXCEPT !.hash_tables =
            [i \in 1..table.b |-> PutBand(table.hash_tables[i], BandKey(bands[i]), ref)]]

\* one iteration of get's loop: the bucket of band index, if any
GetBand(dict, key) == IF key \in DOMAIN dict THEN dict[key] ELSE <<>>

RECURSIVE GetLoop(_, _, _)
GetLoop(table, bands, i) ==
    IF i > table.b THEN <<>>
    ELSE GetBand(table.hash_tables[i], BandKey(bands[i])) \o GetLoop(table, bands, i + 1)

\* get returning from inside its loop, after the first band
BandingGetList_FirstBand(table, signature) ==
    GetBand(table.hash_tables[1], BandKey(SignatureSegments(table, signature)[1]))

\* get's result list before list(set(result))
BandingGetList(table, signature) ==
    GetLoop(table, SignatureSegments(table, signature), 1)

\* set(result): of the references equal under __eq__ the first one stays
SetOf(result) ==
    {result[i] : i \in {j \in DOMAIN result :
        \A k \in 1..(j - 1) : ~LshObjectEq(objects[result[k]], objects[result[j]])}}

\* the lists list(S) may be: a set's iteration order is not specified
ListsOf(S) ==
    {l \in [1..Cardinality(S) -> S] : \A i, j \in DOMAIN l : l[i] = l[j] => i = j}

\* get returning its list as it is
ListSet_NoSet(result) == {result}

\* list(set(result))
ListSet(result) == ListsOf(SetOf(result))

\* the lists BandingHashTable.get may return
BandingGet(table, signature) == ListSet(BandingGetList(table, signature))

(***************************************************************************)
(* JaccardSimilarity.compute_similarity.  A float is kept as the quotient  *)
(* it was computed from.                                                   *)
(***************************************************************************)
Float(num, den) == [cls |-> "float", num |-> num, den |-> den]

RECURSIVE BitwiseOr(_, _)
BitwiseOr(a, b) ==
    IF a = 0 THEN b
    ELSE IF b = 0 THEN a
    ELSE (IF a % 2 = 1 \/ b % 2 = 1 THEN 1 ELSE 0) + 2 * BitwiseOr(a \div 2, b \div 2)

RECURSIVE BitwiseAnd(_, _)
BitwiseAnd(a, b) ==
    IF a = 0 \/ b = 0 THEN 0
    ELSE (IF a % 2 = 1 /\ b % 2 = 1 THEN 1 ELSE 0) + 2 * BitwiseAnd(a \div 2, b \div 2)

RECURSIVE Sum(_)
Sum(s) == IF s = <<>> THEN 0 ELSE Head(s) + Sum(Tail(s))

\* the union counted as the two sums, the intersection twice
Jaccard_compute_similarity_SumOfSums(v1, v2) ==
    LET union == Sum(v1) + Sum(v2)
    IN  IF union = 0 THEN Float(0, 1)
        ELSE Float(1 * Sum([i \in DOMAIN v1 |-> BitwiseAnd(v1[i], v2[i])]), union)

Jaccard_compute_similarity(v1, v2) ==
    LET union == Sum([i \in DOMAIN v1 |-> BitwiseOr(v1[i], v2[i])])
    IN  IF union = 0 THEN Float(0, 1)
        ELSE Float(1 * Sum([i \in DOMAIN v1 |-> BitwiseAnd(v1[i], v2[i])]), union)

(***************************************************************************)
(* The calls.                                                              *)
(***************************************************************************)
Call(op, obj, exc, ret) == [op |-> op, obj |-> obj, exc |-> exc, ret |-> ret]

RECURSIVE TotalPuts(_)
TotalPuts(log) == IF log = <<>> THEN 0 ELSE Len(Head(log)) + TotalPuts(Tail(log))

\* Lsh.__init__: with b = 0 BandingHashTable.__init__ raises
\* ZeroDivisionError and no index is built
LshInit(cfg, planes) ==
    IF cfg.b = 0 THEN None
    ELSE [cls |-> "Lsh",
          feat_dim |-> cfg.feat_dim,
          sig_dim |-> cfg.sig_dim,
          similarity_measure |-> cfg.similarity_measure,
          hasher |-> InitHasher(cfg, planes),
          banding_hashtable |-> BandingHashTable(cfg.sig_dim, cfg.b)]

\* the state after the constructor call Lsh(feat_dim, sig_dim,
\* similarity_measure, b)
Init ==
    /\ identifier = 0
    /\ objects = <<>>
    /\ \E cfg \in Configs : \E planes \in PlaneChoices(cfg) :
          /\ lsh = LshInit(cfg, planes)
          /\ last = Call("Lsh", 0, IF cfg.b = 0 THEN "ZeroDivisionError" ELSE "none", <<>>)
    /\ putLog = <<>>
    /\ vec1 = <<>>
    /\ vec2 = <<>>
    /\ sim = None

\* LshObject.__init__
NewObject(feature) ==
    /\ Len(objects) < MaxObjects
    /\ identifier' = NextIdentifier(identifier)
    /\ objects' = Append(objects, LshObject(identifier', feature))
    /\ putLog' = Append(putLog, <<>>)
    /\ last' = Call("LshObject", Len(objects'), "none", <<>>)
    /\ UNCHANGED <<lsh, vec1, vec2, sim>>

\* Lsh.generate_signature
GenerateSignature(ref) ==
    /\ lsh # None
    /\ LET h == Hasher_hash(lsh.hasher, objects[ref].feature)
       IN  /\ objects' = IF h.exc = "none"
                         THEN [objects EXCEPT ![ref].signature = h.sig]
                         ELSE objects
           /\ last' = Call("generate_signature", ref, h.exc, <<>>)
    /\ UNCHANGED <<identifier, lsh, putLog, vec1, vec2, sim>>

\* Lsh.index
Index(ref) ==
    /\ lsh # None
    /\ TotalPuts(putLog) < MaxPuts
    /\ LET h == Hasher_hash(lsh.hasher, objects[ref].feature)
       IN  IF h.exc = "none"
           THEN /\ objects' = [objects EXCEPT ![ref].signature = h.sig]
                /\ lsh' = [lsh EXCEPT !.banding_hashtable = BandingPut(@, ref, h.sig)]
                /\ putLog' = [putLog EXCEPT ![ref] = Append(@, h.sig)]
                /\ last' = Call("index", ref, "none", <<>>)
           ELSE /\ last' = Call("index", ref, h.exc, <<>>)
                /\ UNCHANGED <<objects, lsh, putLog>>
    /\ UNCHANGED <<identifier, vec1, vec2, sim>>

\* Lsh.retrieve
Retrieve(ref) ==
    /\ lsh # None
    /\ LET h == Hasher_hash(lsh.hasher, objects[ref].feature)
       IN  IF h.exc = "none"
           THEN /\ objects' = [objects EXCEPT ![ref].signature = h.sig]
                /\ \E ret \in BandingGet(lsh.banding_hashtable, h.sig) :
                       last' = Call("retrieve", ref, "none", ret)
           ELSE /\ last' = Call("retrieve", ref, h.exc, <<>>)
                /\ UNCHANGED objects
    /\ UNCHANGED <<identifier, lsh, putLog, vec1, vec2, sim>>

Next ==
    \/ \E feature \in FeaturesFor(lsh) : NewObject(feature)
    \/ \E ref \in DOMAIN objects : GenerateSignature(ref)
    \/ \E ref \in DOMAIN objects : Index(ref)
    \/ \E ref \in DOMAIN objects : Retrieve(ref)

Spec == Init /\ [][Next]_vars

(***************************************************************************)
(* compute_similarity on every pair of binary vectors of one length.       *)
(***************************************************************************)
BinaryVectors == UNION {[1..n -> {0, 1}] : n \in 1..MaxLen}

InitSim ==
    /\ identifier = 0
    /\ objects = <<>>
    /\ lsh = None
    /\ last = Call("none", 0, "none", <<>>)
    /\ putLog = <<>>
    /\ vec1 \in BinaryVectors
    /\ vec2 \in {v \in BinaryVectors : Len(v) = Len(vec1)}
    /\ sim = None

ComputeSimilarity ==
    /\ sim = None
    /\ sim' = Jaccard_compute_similarity(vec1, vec2)
    /\ UNCHANGED <<identifier, objects, lsh, last, putLog, vec1, vec2>>

NextSim == ComputeSimilarity

SpecSim == InitSim /\ [][NextSim]_vars

(***************************************************************************)
(* What the properties below speak of.                                     *)
(***************************************************************************)
Built == lsh # None

Table == lsh.banding_hashtable

\* the objects index() has been called on, successfully
IndexedRefs == {ref \in DOMAIN objects : putLog[ref] # <<>>}

\* the lists retrieve(objects[ref]) may return in the current state, none
\* when it raises
RetrieveResults(ref) ==
    LET h == Hasher_hash(lsh.hasher, objects[ref].feature)
    IN  IF h.exc = "none" THEN BandingGet(Table, h.sig) ELSE {}

\* the last call was a retrieve that returned
Retrieved == Built /\ last.op = "retrieve" /\ last.exc = "none"

\* the signature of the last call's object
QuerySig == objects[last.obj].signature

\* two signatures hold the same elements at all r positions of band i
\* (positions [i * r, (i + 1) * r), i counted from 0)
AgreeOnBand(s1, s2, i) ==
    \A pos \in (Table.r * i)..(Table.r * (i + 1) - 1) : s1[pos + 1] = s2[pos + 1]

AgreeOnSomeBand(s1, s2) == \E i \in 0..(Table.b - 1) : AgreeOnBand(s1, s2, i)

\* the object was put with a signature that agrees with sig on some band
PutAgreeing(ref, sig) ==
    \E n \in DOMAIN putLog[ref] : AgreeOnSomeBand(putLog[ref][n], sig)

NoDuplicateIds(ret) ==
    \A i, j \in DOMAIN ret : objects[ret[i]].id = objects[ret[j]].id => i = j

IsZeroVector(feature) == \A pos \in DOMAIN feature.nz : feature.nz[pos] # 1

RECURSIVE EntriesOver(_, _, _)
EntriesOver(dict, keys, ref) ==
    IF keys = {} THEN 0
    ELSE LET key == CHOOSE k \in keys : TRUE
         IN  Cardinality({n \in DOMAIN dict[key] :
                             LshObjectEq(objects[dict[key][n]], objects[ref])})
             + EntriesOver(dict, keys \ {key}, ref)

\* the number of entries equal to the object across the buckets of a band
EntriesInBand(i, ref) == EntriesOver(Table.hash_tables[i], DOMAIN Table.hash_tables[i], ref)

(***************************************************************************)
(* C1.  Round trip: in every state, for every object that has been         *)
(* indexed, every list retrieve may return for it contains it; so does     *)
(* the list the last retrieve call returned.                               *)
(***************************************************************************)
C1_RoundTrip ==
    Built =>
        /\ \A ref \in IndexedRefs :
              /\ RetrieveResults(ref) # {}
              /\ \A ret \in RetrieveResults(ref) : ref \in Range(ret)
        /\ (Retrieved /\ last.obj \in IndexedRefs) => last.obj \in Range(last.ret)

\* a retrieve of an indexed object returned it together with another object
C1_Witness ==
    /\ Retrieved
    /\ last.obj \in IndexedRefs
    /\ last.obj \in Range(last.ret)
    /\ Len(last.ret) >= 2

(***************************************************************************)
(* C2.  No list a retrieve call returns holds two entries with the same    *)
(* object id.                                                              *)
(***************************************************************************)
C2_NoDuplicates == Retrieved => NoDuplicateIds(last.ret)

\* a retrieve returned an object that was indexed twice and that get found
\* in more than one band: get's list held it more than twice
C2_Witness ==
    /\ Retrieved
    /\ \E ref \in Range(last.ret) :
          /\ Len(putLog[ref]) >= 2
          /\ Cardinality({n \in DOMAIN BandingGetList(Table, QuerySig) :
                             BandingGetList(Table, QuerySig)[n] = ref}) > 2

(***************************************************************************)
(* C3 as claimed.  An index is built only when sig_dim % b = 0.            *)
(***************************************************************************)
C3_InvalidBandConfigurationRaised ==
    Built => lsh.sig_dim % Table.b = 0 /\ Table.r * Table.b = lsh.sig_dim

(***************************************************************************)
(* C4 as claimed.  A generate_signature, index or retrieve call on an      *)
(* object whose feature length is not feat_dim raises.                     *)
(***************************************************************************)
C4_DimensionMismatchRaised ==
    (/\ Built
     /\ last.op \in {"generate_signature", "index", "retrieve"}
     /\ objects[last.obj].feature.len # lsh.feat_dim)
        => last.exc # "none"

(***************************************************************************)
(* C5 as claimed.  Banding soundness: with sig_dim % b = 0, retrieve       *)
(* returns an object only if it was put with a signature that equals the   *)
(* query's on all r positions of some band.                                *)
(***************************************************************************)
C5_BandingSoundness ==
    (Retrieved /\ lsh.sig_dim % Table.b = 0)
        => \A ref \in Range(last.ret) : PutAgreeing(ref, QuerySig)

(***************************************************************************)
(* C6.  Banding completeness: the list a retrieve call returns holds every *)
(* object that was put with a signature agreeing with the query's on all r *)
(* positions of at least one band.                                         *)
(***************************************************************************)
C6_BandingCompleteness ==
    Retrieved =>
        \A ref \in DOMAIN objects : PutAgreeing(ref, QuerySig) => ref \in Range(last.ret)

\* a retrieve returned another object whose signature agrees with the
\* query's in one band and differs from it in another
C6_Witness ==
    /\ Retrieved
    /\ \E ref \in Range(last.ret) :
          /\ ref # last.obj
          /\ PutAgreeing(ref, QuerySig)
          /\ \E n \in DOMAIN putLog[ref] : \E i \in 0..(Table.b - 1) :
                ~AgreeOnBand(putLog[ref][n], QuerySig, i)

(***************************************************************************)
(* C7.  For binary vectors A, B of one length compute_similarity(A, B) is  *)
(* |A n B| / |A u B| (0 when the union is empty), is symmetric, lies in    *)
(* [0, 1], is 1 exactly when A = B and A is not the zero vector, and is 0  *)
(* for two zero vectors.                                                   *)
(***************************************************************************)
OnesOf(v) == {i \in DOMAIN v : v[i] = 1}

C7_Jaccard ==
    sim.cls = "float" =>
        LET inter == Cardinality(OnesOf(vec1) \cap OnesOf(vec2))
            union == Cardinality(OnesOf(vec1) \cup OnesOf(vec2))
        IN  /\ sim.den > 0
            /\ IF union = 0 THEN sim.num = 0 ELSE sim.num * union = inter * sim.den
            /\ LET rev == Jaccard_compute_similarity(vec2, vec1)
               IN  sim.num * rev.den = rev.num * sim.den
            /\ 0 <= sim.num /\ sim.num <= sim.den
            /\ (sim.num = sim.den) <=> (vec1 = vec2 /\ OnesOf(vec1) # {})
            /\ (OnesOf(vec1) = {} /\ OnesOf(vec2) = {}) => sim.num = 0

\* a similarity strictly between 0 and 1 was computed
C7_Witness ==
    /\ sim.cls = "float"
    /\ vec1 # vec2
    /\ 0 < sim.num
    /\ sim.num < sim.den

(***************************************************************************)
(* C8.  In every state, for every object and every band, the number of     *)
(* entries equal to the object across the band's buckets is the number of  *)
(* index calls made on it; and a call other than index leaves the table    *)
(* as it was.                                                              *)
(***************************************************************************)
EntriesMatchIndexCalls ==
    Built => \A ref \in DOMAIN objects : \A i \in 1..Table.b :
                EntriesInBand(i, ref) = Len(putLog[ref])

C8_PutOnlyNoDedup ==
    /\ []EntriesMatchIndexCalls
    /\ [][last'.op # "index" => lsh' = lsh]_vars

\* an object was indexed twice and has two entries in every band
C8_Witness ==
    /\ Built
    /\ last.op = "index"
    /\ last.exc = "none"
    /\ Len(putLog[last.obj]) = 2
    /\ \A i \in 1..Table.b : EntriesInBand(i, last.obj) = 2

(***************************************************************************)
(* C9 as claimed.  In a Jaccard index the signature of a vector with no    *)
(* set bit is the sentinel in every position, no signature of a vector     *)
(* with a set bit holds the sentinel, and retrieve never returns a vector  *)
(* with a set bit for a zero-vector query, nor a zero vector for a query   *)
(* with a set bit.                                                         *)
(***************************************************************************)
C9_SentinelNeverCollides ==
    (Built /\ lsh.hasher.cls = "MinHasher") =>
        /\ \A ref \in DOMAIN objects :
              objects[ref].signature # None =>
                  /\ Len(objects[ref].signature) = lsh.sig_dim
                  /\ \A k \in DOMAIN objects[ref].signature :
                        (objects[ref].signature[k] = InfElem)
                            <=> IsZeroVector(objects[ref].feature)
        /\ Retrieved =>
              \A ref \in Range(last.ret) :
                  IsZeroVector(objects[ref].feature) <=> IsZeroVector(objects[last.obj].feature)

(***************************************************************************)
(* C10.  Object ids strictly increase in creation order and never exceed   *)
(* the class counter, so no two objects share an id; objects are equal     *)
(* exactly when they are the same object; and a retrieve returns, of two   *)
(* indexed objects with identical features, both or neither.               *)
(***************************************************************************)
C10_ObjectIdentity ==
    /\ \A i, j \in DOMAIN objects : i < j => objects[i].id < objects[j].id
    /\ \A i \in DOMAIN objects : objects[i].id <= identifier
    /\ \A i, j \in DOMAIN objects : LshObjectEq(objects[i], objects[j]) <=> i = j
    /\ Retrieved =>
          \A i, j \in IndexedRefs :
              objects[i].feature = objects[j].feature
                  => (i \in Range(last.ret) <=> j \in Range(last.ret))

\* a retrieve returned two distinct objects with identical features
C10_Witness ==
    /\ Retrieved
    /\ \E i, j \in Range(last.ret) :
          /\ i # j
          /\ objects[i].feature = objects[j].feature

====
